---- MODULE Spec2Model ----
(***************************************************************************)
(* A model of neptune/population_tools.py: the population loader, the      *)
(* field extractors and the table assembly (build_dataframe,               *)
(* dataframe_for_dir, dataframe_for_dirs, dataframe_for_population).       *)
(*                                                                         *)
(* The module is a library of functions without state of its own.  A       *)
(* behaviour of the model is one call: from the idle state an action       *)
(* draws the call's inputs (a creature, a file, a directory, ...) from     *)
(* bounded sets and records the operation, its arguments, what it          *)
(* returned or raised, and the lines it printed.                           *)
(***************************************************************************)
EXTENDS Integers, Sequences, FiniteSets

VARIABLES op, args, result, stdout

vars == <<op, args, result, stdout>>

(***************************************************************************)
(* Bounds of the model.                                                    *)
(***************************************************************************)
MaxLen == 2
MaxFiles == 3
MaxDirs == 2
MaxIslands == 2

(***************************************************************************)
(* JSON values as json.load returns them.  None is Null, a number is Num   *)
(* (an int) or Flt (a float, kept in tenths), a str is the sequence of its *)
(* characters, a list is Arr and a dict is Obj, a function from its keys.  *)
(***************************************************************************)
Null == [t |-> "null"]
Num(n) == [t |-> "int", n |-> n]
Flt(tenths) == [t |-> "float", tenths |-> tenths]
Str(chars) == [t |-> "str", s |-> chars]
Arr(elems) == [t |-> "list", a |-> elems]
Obj(m) == [t |-> "dict", m |-> m]

\* The characters of the key literals the code uses on the left of `in`.
Chars(key) ==
    CASE key = "fitness" -> <<"f", "i", "t", "n", "e", "s", "s">>
      [] key = "cached_scalar" ->
            <<"c", "a", "c", "h", "e", "d", "_", "s", "c", "a", "l", "a", "r">>

\* A dict built from a set of <<key, value>> pairs with distinct keys.
Dict(pairs) ==
    Obj([k \in {p[1] : p \in pairs} |-> (CHOOSE p \in pairs : p[1] = k)[2]])

(***************************************************************************)
(* What an evaluation yields: a value, or an exception that is raised.     *)
(* out holds the lines printed on the way, in order.                       *)
(***************************************************************************)
Return(v, out) == [exc |-> "none", val |-> v, out |-> out]
Raise(e, out) == [exc |-> e, val |-> Null, out |-> out]

\* needle occurs in hay as a contiguous run (str.__contains__).
IsSubstring(needle, hay) ==
    \E i \in 0..(Len(hay) - Len(needle)) :
        \A j \in 1..Len(needle) : hay[i + j] = needle[j]

\* `key in v` for a str key.
Contains(key, v) ==
    CASE v.t = "dict" -> Return(key \in DOMAIN v.m, <<>>)
      [] v.t = "list" ->
            Return(\E i \in 1..Len(v.a) : v.a[i] = Str(Chars(key)), <<>>)
      [] v.t = "str" -> Return(IsSubstring(Chars(key), v.s), <<>>)
      [] OTHER -> Raise("TypeError", <<>>)

\* `v[key]` for a str key.
GetItem(v, key) ==
    CASE v.t = "dict" ->
            IF key \in DOMAIN v.m THEN Return(v.m[key], <<>>)
            ELSE Raise("KeyError", <<>>)
      [] OTHER -> Raise("TypeError", <<>>)

\* `v[k1][k2]...`: the lookups of a path, left to right, the first failure raised.
RECURSIVE GetPath(_, _)
GetPath(v, keys) ==
    IF keys = <<>> THEN Return(v, <<>>)
    ELSE LET r == GetItem(v, Head(keys))
         IN  IF r.exc # "none" THEN r ELSE GetPath(r.val, Tail(keys))

(***************************************************************************)
(* The field extractors.                                                   *)
(***************************************************************************)
fitness_of_creature(creature) ==
    LET hasFitness == Contains("fitness", creature)
    IN  IF hasFitness.exc # "none" THEN hasFitness
        ELSE IF ~hasFitness.val THEN Return(Null, <<>>)
        ELSE LET hasScalar == Contains("cached_scalar", GetItem(creature, "fitness").val)
             IN  IF hasScalar.exc # "none" THEN hasScalar
                 ELSE IF ~hasScalar.val THEN Return(Null, <<>>)
                 ELSE GetPath(creature, <<"fitness", "cached_scalar">>)

generation_of_creature_lenient(creature) ==
    IF creature.t = "dict" /\ "generation" \in DOMAIN creature.m
    THEN Return(creature.m["generation"], <<>>)
    ELSE Return(Null, <<>>)

generation_of_creature(creature) == GetPath(creature, <<"generation">>)

mem_write_ratio_of_creature(creature) ==
    GetPath(creature, <<"fitness", "scores", "mem_write_ratio">>)

mem_ratio_written_of_creature(creature) ==
    GetPath(creature, <<"fitness", "scores", "mem_ratio_written">>)

code_coverage_of_creature(creature) ==
    GetPath(creature, <<"fitness", "scores", "code_coverage">>)

\* The extractors as the values passed for f1 and f2.
Extractors ==
    {"fitness_of_creature", "generation_of_creature", "mem_write_ratio_of_creature",
     "mem_ratio_written_of_creature", "code_coverage_of_creature"}

\* f(creature) for an extractor f.
Apply(f, creature) ==
    CASE f = "fitness_of_creature" -> fitness_of_creature(creature)
      [] f = "generation_of_creature" -> generation_of_creature(creature)
      [] f = "mem_write_ratio_of_creature" -> mem_write_ratio_of_creature(creature)
      [] f = "mem_ratio_written_of_creature" -> mem_ratio_written_of_creature(creature)
      [] f = "code_coverage_of_creature" -> code_coverage_of_creature(creature)

(***************************************************************************)
(* Files.  A path names a file that is missing, is not gzip data, is gzip  *)
(* data cut short, holds text that is not JSON, or holds a JSON document;  *)
(* doc is the value json.load parses from it.                              *)
(***************************************************************************)
FailureKinds == {"missing", "not_gzip", "truncated", "bad_json"}

BadFile(kind) == [kind |-> kind, doc |-> <<>>]
JsonFile(doc) == [kind |-> "json", doc |-> doc]

\* The classes `except Exception` catches, among those the model raises.
ExceptionClasses ==
    {"FileNotFoundError", "BadGzipFile", "EOFError", "JSONDecodeError",
     "KeyError", "TypeError", "NameError", "StopIteration"}

\* The body of the try: gzip.open(path) and json.load(f).
ReadGzipJson(file) ==
    CASE file.kind = "missing" -> Raise("FileNotFoundError", <<>>)
      [] file.kind = "not_gzip" -> Raise("BadGzipFile", <<>>)
      [] file.kind = "truncated" -> Raise("EOFError", <<>>)
      [] file.kind = "bad_json" -> Raise("JSONDecodeError", <<>>)
      [] file.kind = "json" -> Return(file.doc, <<>>)

\* A printed line; exc names the exception a failure message reports.
Line(text, exc) == [text |-> text, exc |-> exc]
FailureLine(e) == Line("Failed to read population from", e)

load_population_oserror(file) ==
    LET r == ReadGzipJson(file)
    IN  IF r.exc \in {"FileNotFoundError", "BadGzipFile"}
        THEN Return(<<>>, <<FailureLine(r.exc)>>) ELSE r

load_population_reraise(file) ==
    LET r == ReadGzipJson(file)
    IN  IF r.exc \in ExceptionClasses THEN Raise(r.exc, <<FailureLine(r.exc)>>) ELSE r

load_population(file) ==
    LET r == ReadGzipJson(file)
    IN  IF r.exc \in ExceptionClasses THEN Return(<<>>, <<FailureLine(r.exc)>>) ELSE r

(***************************************************************************)
(* Tables (pandas.DataFrame): the column names in order, the row labels,   *)
(* and the rows, each a function from the column names to the cell.  A     *)
(* cell holds the value the extractor returned; Null is the absent cell    *)
(* (None, which pandas shows as NaN in a numeric column).  DataFrame.append *)
(* is the method of pandas before 2.0, which the code calls.               *)
(***************************************************************************)
\* [f(c) for c in population]: the list, or the first exception f raises.
RECURSIVE Column(_, _)
Column(f, population) ==
    IF population = <<>> THEN Return(<<>>, <<>>)
    ELSE LET x == Apply(f, Head(population))
         IN  IF x.exc # "none" THEN x
             ELSE LET rest == Column(f, Tail(population))
                  IN  IF rest.exc # "none" THEN rest
                      ELSE Return(<<x.val>> \o rest.val, <<>>)

\* pd.DataFrame(data={c1_name: col1, c2_name: col2}): the dict keeps one entry
\* per key, the later value under the first position.
DataFrame(c1_name, col1, c2_name, col2) ==
    LET d == [k \in {c1_name, c2_name} |-> IF k = c2_name THEN col2 ELSE col1]
        cols == IF c1_name = c2_name THEN <<c1_name>> ELSE <<c1_name, c2_name>>
        n == Len(d[c1_name])
    IN  [cols |-> cols,
         index |-> [i \in 1..n |-> i - 1],
         rows |-> [i \in 1..n |-> [k \in {c1_name, c2_name} |-> d[k][i]]]]

\* No handler encloses the list comprehensions: what load_population or an
\* extractor raises leaves build_dataframe, col1 being built before col2.
build_dataframe(file, c1_name, c2_name, f1, f2) ==
    LET loaded == load_population(file)
        col1 == Column(f1, loaded.val)
        col2 == Column(f2, loaded.val)
    IN  IF loaded.exc # "none" THEN loaded
        ELSE IF col1.exc # "none" THEN Raise(col1.exc, loaded.out)
        ELSE IF col2.exc # "none" THEN Raise(col2.exc, loaded.out)
        ELSE Return(DataFrame(c1_name, col1.val, c2_name, col2.val), loaded.out)

append_drop_duplicates(self, other) ==
    LET both == self.rows \o other.rows
        first(i) == \A j \in 1..(i - 1) : both[j] # both[i]
        keep == {i \in 1..Len(both) : first(i)}
        RECURSIVE pick(_)
        pick(i) == IF i > Len(both) THEN <<>>
                   ELSE (IF i \in keep THEN <<i>> ELSE <<>>) \o pick(i + 1)
        idx == pick(1)
        labels == self.index \o other.index
    IN  [cols |-> self.cols,
         index |-> [i \in 1..Len(idx) |-> labels[idx[i]]],
         rows |-> [i \in 1..Len(idx) |-> both[idx[i]]]]

\* DataFrame.append(self, other): the rows of other after those of self, each
\* keeping its label; a column one side lacks is filled with the absent value.
append(self, other) ==
    LET extra == SelectSeq(other.cols,
                     LAMBDA c : \A i \in 1..Len(self.cols) : self.cols[i] # c)
        cols == self.cols \o extra
        names == {cols[i] : i \in 1..Len(cols)}
        fill(row) == [k \in names |-> IF k \in DOMAIN row THEN row[k] ELSE Null]
        rows == self.rows \o other.rows
    IN  [cols |-> cols,
         index |-> self.index \o other.index,
         rows |-> [i \in 1..Len(rows) |-> fill(rows[i])]]

\* The steps of ft.reduce after the first element: acc = append(acc, next), the
\* elements evaluated in order, the first exception raised.
RECURSIVE Fold(_, _, _)
Fold(acc, results, out) ==
    IF results = <<>> THEN Return(acc, out)
    ELSE LET r == Head(results)
         IN  IF r.exc # "none" THEN Raise(r.exc, out \o r.out)
             ELSE Fold(append(acc, r.val), Tail(results), out \o r.out)

reduce_reversed(results, out) ==
    LET n == Len(results)
        rev == [i \in 1..n |-> results[n + 1 - i]]
    IN  IF n = 0 THEN Raise("TypeError", out)
        ELSE IF rev[1].exc # "none" THEN Raise(rev[1].exc, out \o rev[1].out)
        ELSE Fold(rev[1].val, Tail(rev), out \o rev[1].out)

\* ft.reduce(pd.DataFrame.append, results) without an initial value: an empty
\* iterable is a TypeError.
reduce(results, out) ==
    IF results = <<>> THEN Raise("TypeError", out)
    ELSE LET r == Head(results)
         IN  IF r.exc # "none" THEN Raise(r.exc, out \o r.out)
             ELSE Fold(r.val, Tail(results), out \o r.out)

(***************************************************************************)
(* Directories: whether the path is a directory, and the files directly    *)
(* inside it in the order os.walk lists them.                              *)
(***************************************************************************)
Directory(fs) == [exists |-> TRUE, files |-> fs]
NoDirectory == [exists |-> FALSE, files |-> <<>>]

\* next(os.walk(directory))[2], printed: os.walk of a path that is no
\* directory yields nothing, and next() raises StopIteration.
files(directory) ==
    IF ~directory.exists THEN Raise("StopIteration", <<>>)
    ELSE Return(directory.files, <<Line("fs", "none")>>)

dataframe_for_dir(directory, c1_name, c2_name, f1, f2) ==
    LET listed == files(directory)
        frames == [i \in 1..Len(listed.val) |->
                      build_dataframe(listed.val[i], c1_name, c2_name, f1, f2)]
    IN  IF listed.exc # "none" THEN listed ELSE reduce(frames, listed.out)

dataframe_for_dirs(pop_dirs, col_1_name, col_2_name, col_1_func, col_2_func) ==
    LET frames == [i \in 1..Len(pop_dirs) |->
                      dataframe_for_dir(pop_dirs[i], col_1_name, col_2_name,
                                        col_1_func, col_2_func)]
    IN  reduce(frames, <<Line("pop_dirs", "none")>>)

(***************************************************************************)
(* A population root: its island_<N> subdirectories in listing order, each *)
(* with a population directory and the champion*.json.gz files of its      *)
(* champions directory.                                                    *)
(***************************************************************************)
Island(population, champions) == [population |-> population, champions |-> champions]

\* The modules the file imports; a name outside them is unbound.
ImportedModules == {"functools", "gzip", "joypy", "json", "os", "pandas", "seaborn"}

\* glob.glob(pattern), given the paths the pattern matches.
glob_glob(matches) ==
    IF "glob" \in ImportedModules THEN Return(matches, <<>>)
    ELSE Raise("NameError", <<>>)

\* The paths <population_name>/island_*/population that exist.
PopulationMatches(root) ==
    LET all == [i \in 1..Len(root) |-> root[i].population]
    IN  SelectSeq(all, LAMBDA d : d.exists)

\* The paths <population>/island_*/champions/champion*.json.gz.
RECURSIVE ChampionMatches(_)
ChampionMatches(root) ==
    IF root = <<>> THEN <<>> ELSE Head(root).champions \o ChampionMatches(Tail(root))

\* island = 0 stands for None.
population_dirs(root, island) ==
    IF island = 0 THEN glob_glob(PopulationMatches(root))
    ELSE glob_glob(IF island \in 1..Len(root)
                   THEN PopulationMatches(<<root[island]>>) ELSE <<>>)

dataframe_for_population(root, col_1_name, col_2_name, col_1_func, col_2_func) ==
    LET dirs == glob_glob(PopulationMatches(root))
    IN  IF dirs.exc # "none" THEN dirs
        ELSE dataframe_for_dirs(dirs.val, col_1_name, col_2_name, col_1_func, col_2_func)

RECURSIVE LoadAll(_)
LoadAll(paths) ==
    IF paths = <<>> THEN Return(<<>>, <<>>)
    ELSE LET r == load_population(Head(paths))
             rest == LoadAll(Tail(paths))
         IN  IF r.exc # "none" THEN r
             ELSE IF rest.exc # "none" THEN Raise(rest.exc, r.out \o rest.out)
             ELSE Return(<<r.val>> \o rest.val, r.out \o rest.out)

get_champions_for_population(root) ==
    LET champions == glob_glob(ChampionMatches(root))
    IN  IF champions.exc # "none" THEN champions ELSE LoadAll(champions.val)

(***************************************************************************)
(* The inputs the calls are drawn from.                                    *)
(***************************************************************************)
Seqs(S, n) == UNION {[1..k -> S] : k \in 0..n}

\* A key that a record does not have.
Absent == [t |-> "absent"]
Fields(pairs) == Dict({p \in pairs : p[2] # Absent})

AllScores ==
    Fields({<<"mem_write_ratio", Flt(1)>>, <<"mem_ratio_written", Flt(2)>>,
            <<"code_coverage", Flt(3)>>})

ScoresChoices ==
    {Absent, Null, Fields({}), Fields({<<"code_coverage", Flt(3)>>}), AllScores}

ScalarChoices == {Absent, Null, Num(0), Flt(5)}

FitnessChoices ==
    {Absent, Null, Num(3), Str(<<"x">>), Str(Chars("cached_scalar")),
     Str(<<"a">> \o Chars("cached_scalar") \o <<"s">>),
     Arr(<<>>), Arr(<<Str(Chars("cached_scalar"))>>)}
    \cup {Fields({<<"cached_scalar", s>>, <<"scores", sc>>}) :
             s \in ScalarChoices, sc \in ScoresChoices}

GenerationChoices == {Absent, Num(1), Num(2)}

\* The creature records the extractors are applied to.
Creatures ==
    {Fields({<<"generation", g>>, <<"fitness", f>>}) :
        g \in GenerationChoices, f \in FitnessChoices}

\* The creature records of the files.
cFit == Fields({<<"generation", Num(1)>>,
                <<"fitness", Fields({<<"cached_scalar", Flt(5)>>})>>})
cNoFit == Fields({<<"generation", Num(2)>>})
cNullFit == Fields({<<"generation", Num(2)>>, <<"fitness", Null>>})
cNoGen == Fields({<<"fitness", Fields({<<"cached_scalar", Num(0)>>})>>})
cScored == Fields({<<"generation", Num(1)>>,
                   <<"fitness", Fields({<<"cached_scalar", Num(0)>>,
                                        <<"scores", AllScores>>})>>})

FileCreatures == {cFit, cNoFit, cNullFit, cNoGen, cScored}

BadFiles == {BadFile(k) : k \in FailureKinds}

\* A path handed to load_population or build_dataframe.
Files == BadFiles \cup {JsonFile(d) : d \in Seqs(FileCreatures, MaxLen)}

\* The files of a directory: they exist, so none is missing.
DirFiles ==
    {BadFile("not_gzip"), BadFile("bad_json"), JsonFile(<<>>), JsonFile(<<cFit>>),
     JsonFile(<<cNoFit>>), JsonFile(<<cFit, cNoFit>>), JsonFile(<<cNoFit, cFit>>),
     JsonFile(<<cNullFit>>), JsonFile(<<cNoGen>>)}

Directories == {NoDirectory} \cup {Directory(fs) : fs \in Seqs(DirFiles, MaxFiles)}

\* The directories of a list of directories.
ListedDirectories ==
    {NoDirectory, Directory(<<>>), Directory(<<JsonFile(<<cFit>>)>>),
     Directory(<<JsonFile(<<cNoFit>>), JsonFile(<<cFit>>)>>),
     Directory(<<BadFile("truncated"), JsonFile(<<cFit, cNoFit>>)>>),
     Directory(<<BadFile("bad_json")>>),
     Directory(<<JsonFile(<<cNullFit>>)>>)}

\* The islands of a population root.
Islands ==
    {Island(d, ch) :
        d \in {NoDirectory, Directory(<<JsonFile(<<cFit>>)>>),
               Directory(<<JsonFile(<<cFit>>), JsonFile(<<cNoFit>>)>>)},
        ch \in {<<>>, <<JsonFile(<<cFit>>)>>}}

ColumnNames == {"generation", "fitness"}

\* The extractor pairs and column names of the directory calls.
Columns(c1_name, c2_name, f1, f2) ==
    [c1_name |-> c1_name, c2_name |-> c2_name, f1 |-> f1, f2 |-> f2]

DirColumns ==
    {Columns("generation", "fitness", "generation_of_creature", "fitness_of_creature"),
     Columns("fitness", "generation", "fitness_of_creature", "generation_of_creature"),
     Columns("generation", "generation", "generation_of_creature", "fitness_of_creature"),
     Columns("generation", "code_coverage", "generation_of_creature",
             "code_coverage_of_creature")}

(***************************************************************************)
(* The calls.                                                              *)
(***************************************************************************)
NoArgs == [f |-> "none"]

Init ==
    /\ op = "idle"
    /\ args = NoArgs
    /\ result = [exc |-> "none", val |-> Null]
    /\ stdout = <<>>

\* What a call leaves to its caller: the value returned or the exception raised.
Outcome(r) == [exc |-> r.exc, val |-> r.val]

Extract ==
    /\ op = "idle"
    /\ \E f \in Extractors, creature \in Creatures :
        LET r == Apply(f, creature)
        IN  /\ op' = "extract"
            /\ args' = [f |-> f, creature |-> creature]
            /\ result' = Outcome(r)
            /\ stdout' = r.out

LoadPopulation ==
    /\ op = "idle"
    /\ \E file \in Files :
        LET r == load_population(file)
        IN  /\ op' = "load_population"
            /\ args' = [file |-> file]
            /\ result' = Outcome(r)
            /\ stdout' = r.out

BuildDataframe ==
    /\ op = "idle"
    /\ \E file \in Files, c1_name \in ColumnNames, c2_name \in ColumnNames,
          f1 \in Extractors, f2 \in Extractors :
        LET r == build_dataframe(file, c1_name, c2_name, f1, f2)
        IN  /\ op' = "build_dataframe"
            /\ args' = [file |-> file, c1_name |-> c1_name, c2_name |-> c2_name,
                        f1 |-> f1, f2 |-> f2]
            /\ result' = Outcome(r)
            /\ stdout' = r.out

DataframeForDir ==
    /\ op = "idle"
    /\ \E directory \in Directories, c \in DirColumns :
        LET r == dataframe_for_dir(directory, c.c1_name, c.c2_name, c.f1, c.f2)
        IN  /\ op' = "dataframe_for_dir"
            /\ args' = [directory |-> directory, c1_name |-> c.c1_name,
                        c2_name |-> c.c2_name, f1 |-> c.f1, f2 |-> c.f2]
            /\ result' = Outcome(r)
            /\ stdout' = r.out

DataframeForDirs ==
    /\ op = "idle"
    /\ \E pop_dirs \in Seqs(ListedDirectories, MaxDirs), c \in DirColumns :
        LET r == dataframe_for_dirs(pop_dirs, c.c1_name, c.c2_name, c.f1, c.f2)
        IN  /\ op' = "dataframe_for_dirs"
            /\ args' = [pop_dirs |-> pop_dirs, c1_name |-> c.c1_name,
                        c2_name |-> c.c2_name, f1 |-> c.f1, f2 |-> c.f2]
            /\ result' = Outcome(r)
            /\ stdout' = r.out

PopulationDirs ==
    /\ op = "idle"
    /\ \E root \in Seqs(Islands, MaxIslands), island \in 0..MaxIslands :
        LET r == population_dirs(root, island)
        IN  /\ op' = "population_dirs"
            /\ args' = [root |-> root, island |-> island]
            /\ result' = Outcome(r)
            /\ stdout' = r.out

DataframeForPopulation ==
    /\ op = "idle"
    /\ \E root \in Seqs(Islands, MaxIslands), c \in DirColumns :
        LET r == dataframe_for_population(root, c.c1_name, c.c2_name, c.f1, c.f2)
        IN  /\ op' = "dataframe_for_population"
            /\ args' = [root |-> root, c1_name |-> c.c1_name,
                        c2_name |-> c.c2_name, f1 |-> c.f1, f2 |-> c.f2]
            /\ result' = Outcome(r)
            /\ stdout' = r.out

GetChampionsForPopulation ==
    /\ op = "idle"
    /\ \E root \in Seqs(Islands, MaxIslands) :
        LET r == get_champions_for_population(root)
        IN  /\ op' = "get_champions_for_population"
            /\ args' = [root |-> root]
            /\ result' = Outcome(r)
            /\ stdout' = r.out

Next ==
    \/ Extract
    \/ LoadPopulation
    \/ BuildDataframe
    \/ DataframeForDir
    \/ DataframeForDirs
    \/ DataframeForPopulation
    \/ PopulationDirs
    \/ GetChampionsForPopulation

Spec == Init /\ [][Next]_vars

(***************************************************************************)
(* What the claims speak of, stated apart from the operators above.        *)
(***************************************************************************)
\* The creature has the fitness.cached_scalar path.
HasScalarPath(creature) ==
    /\ "fitness" \in DOMAIN creature.m
    /\ creature.m["fitness"].t = "dict"
    /\ "cached_scalar" \in DOMAIN creature.m["fitness"].m

\* The records of the files that load, in file-then-record order.
RECURSIVE Records(_)
Records(fs) ==
    IF fs = <<>> THEN <<>>
    ELSE (IF Head(fs).kind = "json" THEN Head(fs).doc ELSE <<>>) \o Records(Tail(fs))

\* Both extractors return a value for every record.
AllExtracted(records, f1, f2) ==
    \A i \in 1..Len(records) :
        Apply(f1, records[i]).exc = "none" /\ Apply(f2, records[i]).exc = "none"

\* The cells of the row of one record under the two column names.
RowOf(creature, c1_name, c2_name, f1, f2) ==
    [k \in {c1_name, c2_name} |->
        IF k = c2_name THEN Apply(f2, creature).val ELSE Apply(f1, creature).val]

RowsOf(records, c1_name, c2_name, f1, f2) ==
    [i \in 1..Len(records) |-> RowOf(records[i], c1_name, c2_name, f1, f2)]

\* The files of the directories of a list, directory after directory.
RECURSIVE FilesOf(_)
FilesOf(dirs) ==
    IF dirs = <<>> THEN <<>> ELSE Head(dirs).files \o FilesOf(Tail(dirs))

\* C1: load_population never raises: for a path that is missing, is not gzip
\* or does not hold JSON it prints the failure and returns the empty list,
\* and for a readable file it returns the parsed document.
C1_LoadNeverRaises ==
    op = "load_population" =>
        /\ result.exc = "none"
        /\ args.file.kind = "json" => result.val = args.file.doc /\ stdout = <<>>
        /\ args.file.kind \in FailureKinds =>
              /\ result.val = <<>>
              /\ Len(stdout) = 1
              /\ stdout[1].text = "Failed to read population from"

C1_Witness ==
    /\ op = "load_population"
    /\ args.file.kind = "bad_json"
    /\ result = [exc |-> "none", val |-> <<>>]
    /\ stdout # <<>>

\* C2: fitness_of_creature never raises: it returns None for every creature
\* without the fitness.cached_scalar path, whatever the value under 'fitness',
\* and the cached scalar for every creature with the path.
C2_FitnessNeverRaises ==
    (op = "extract" /\ args.f = "fitness_of_creature") =>
        /\ result.exc = "none"
        /\ result.val = IF HasScalarPath(args.creature)
                        THEN args.creature.m["fitness"].m["cached_scalar"]
                        ELSE Null

\* Every file of the sequence loads.
AllLoad(fs) == \A i \in 1..Len(fs) : fs[i].kind = "json"

\* The column names of a table built under the two names.
ColsOf(c1_name, c2_name) ==
    IF c1_name = c2_name THEN <<c1_name>> ELSE <<c1_name, c2_name>>

\* C3: for a directory of k >= 1 files, file i holding n_i records, the table
\* of dataframe_for_dir has n_1 + ... + n_k rows, the rows of the records in
\* file order and, within a file, in record order.
C3_DirRowsInOrder ==
    LET fs == args.directory.files
        records == Records(fs)
        RECURSIVE sum(_)
        sum(rest) == IF rest = <<>> THEN 0 ELSE Len(Head(rest).doc) + sum(Tail(rest))
    IN  (/\ op = "dataframe_for_dir"
         /\ args.directory.exists
         /\ Len(fs) >= 1
         /\ AllLoad(fs)
         /\ AllExtracted(records, args.f1, args.f2)) =>
            /\ result.exc = "none"
            /\ Len(result.val.rows) = sum(fs)
            /\ Len(result.val.index) = sum(fs)
            /\ result.val.rows =
                  RowsOf(records, args.c1_name, args.c2_name, args.f1, args.f2)

C3_Witness ==
    /\ op = "dataframe_for_dir"
    /\ args.directory.files
          = <<JsonFile(<<cNoFit, cFit>>), JsonFile(<<>>), JsonFile(<<cFit>>)>>
    /\ args.f1 = "generation_of_creature"
    /\ args.f2 = "fitness_of_creature"
    /\ result.exc = "none"
    /\ Len(result.val.rows) = 3
    /\ result.val.rows[1] # result.val.rows[2]

\* C4: under two distinct column names the table of build_dataframe and
\* dataframe_for_dir has two columns, row i holding (f1(creature_i),
\* f2(creature_i)); with the generation and fitness extractors every creature
\* without a cached scalar is kept as the row (generation, None).
C4_RowsPairExtractors ==
    /\ (/\ op \in {"build_dataframe", "dataframe_for_dir"}
        /\ args.c1_name # args.c2_name
        /\ result.exc = "none") =>
            /\ Len(result.val.cols) = 2
            /\ \A i \in 1..Len(result.val.rows) :
                  DOMAIN result.val.rows[i] = {args.c1_name, args.c2_name}
    /\ LET fs == args.directory.files
           records == Records(fs)
       IN  (/\ op = "dataframe_for_dir"
            /\ args.directory.exists
            /\ Len(fs) >= 1
            /\ args.c1_name = "generation"
            /\ args.c2_name = "fitness"
            /\ args.f1 = "generation_of_creature"
            /\ args.f2 = "fitness_of_creature"
            /\ \A i \in 1..Len(records) : "generation" \in DOMAIN records[i].m) =>
               /\ result.exc = "none"
               /\ Len(result.val.rows) = Len(records)
               /\ \A i \in 1..Len(records) :
                     /\ result.val.rows[i]["generation"] = records[i].m["generation"]
                     /\ result.val.rows[i]["fitness"] =
                           IF HasScalarPath(records[i])
                           THEN records[i].m["fitness"].m["cached_scalar"]
                           ELSE Null

\* C5: over a non-empty list of directories, each holding a file,
\* dataframe_for_dirs returns one table: the rows of the directories' tables
\* in list order, under the column names given, equal rows kept.
C5_DirsRowsInOrder ==
    LET dirs == args.pop_dirs
        records == Records(FilesOf(dirs))
        table(d) == dataframe_for_dir(d, args.c1_name, args.c2_name, args.f1, args.f2)
        RECURSIVE rows(_)
        rows(rest) == IF rest = <<>> THEN <<>>
                      ELSE table(Head(rest)).val.rows \o rows(Tail(rest))
    IN  (/\ op = "dataframe_for_dirs"
         /\ Len(dirs) >= 1
         /\ \A i \in 1..Len(dirs) : dirs[i].exists /\ Len(dirs[i].files) >= 1
         /\ AllExtracted(records, args.f1, args.f2)) =>
            /\ result.exc = "none"
            /\ result.val.cols = ColsOf(args.c1_name, args.c2_name)
            /\ \A i \in 1..Len(dirs) : table(dirs[i]).val.cols = result.val.cols
            /\ result.val.rows = rows(dirs)
            /\ result.val.rows =
                  RowsOf(records, args.c1_name, args.c2_name, args.f1, args.f2)

C5_Witness ==
    /\ op = "dataframe_for_dirs"
    /\ args.pop_dirs = <<Directory(<<JsonFile(<<cFit>>)>>),
                         Directory(<<JsonFile(<<cNoFit>>), JsonFile(<<cFit>>)>>)>>
    /\ args.c1_name = "generation"
    /\ args.c2_name = "fitness"
    /\ result.exc = "none"
    /\ result.val.cols = <<"generation", "fitness">>
    /\ Len(result.val.rows) = 3
    /\ result.val.rows[1] = result.val.rows[3]
    /\ result.val.rows[1] # result.val.rows[2]

\* The path has a missing key: every lookup before it finds a dict with the key.
RECURSIVE MissingKey(_, _)
MissingKey(v, keys) ==
    /\ keys # <<>>
    /\ v.t = "dict"
    /\ \/ Head(keys) \notin DOMAIN v.m
       \/ MissingKey(v.m[Head(keys)], Tail(keys))

\* The key path each sub-score extractor looks up.
ScorePath(f) ==
    CASE f = "mem_write_ratio_of_creature" -> <<"fitness", "scores", "mem_write_ratio">>
      [] f = "mem_ratio_written_of_creature" ->
            <<"fitness", "scores", "mem_ratio_written">>
      [] f = "code_coverage_of_creature" -> <<"fitness", "scores", "code_coverage">>

\* The exception of the first record f fails on, "none" when there is none.
RECURSIVE FirstExc(_, _)
FirstExc(f, records) ==
    IF records = <<>> THEN "none"
    ELSE IF Apply(f, Head(records)).exc # "none" THEN Apply(f, Head(records)).exc
    ELSE FirstExc(f, Tail(records))

\* The first extractor failure over the files: file by file, the first column
\* before the second.
RECURSIVE FirstFailure(_, _, _)
FirstFailure(fs, f1, f2) ==
    IF fs = <<>> THEN "none"
    ELSE LET records == Records(<<Head(fs)>>)
         IN  IF FirstExc(f1, records) # "none" THEN FirstExc(f1, records)
             ELSE IF FirstExc(f2, records) # "none" THEN FirstExc(f2, records)
             ELSE FirstFailure(Tail(fs), f1, f2)

\* C6: generation_of_creature raises KeyError for a creature without
\* 'generation', a sub-score extractor raises KeyError for a key missing on its
\* path, and in build_dataframe and dataframe_for_dir the failure of an
\* extractor is raised to the caller: no table is returned.
C6_LookupFailurePropagates ==
    /\ (/\ op = "extract"
        /\ args.f = "generation_of_creature"
        /\ "generation" \notin DOMAIN args.creature.m) => result.exc = "KeyError"
    /\ (/\ op = "extract"
        /\ args.f \in {"mem_write_ratio_of_creature", "mem_ratio_written_of_creature",
                       "code_coverage_of_creature"}
        /\ MissingKey(args.creature, ScorePath(args.f))) => result.exc = "KeyError"
    /\ (/\ op = "build_dataframe"
        /\ args.f1 = "generation_of_creature"
        /\ \E i \in 1..Len(args.file.doc) : "generation" \notin DOMAIN args.file.doc[i].m)
          => result = [exc |-> "KeyError", val |-> Null]
    /\ (/\ op = "build_dataframe"
        /\ FirstFailure(<<args.file>>, args.f1, args.f2) # "none")
          => result = [exc |-> FirstFailure(<<args.file>>, args.f1, args.f2), val |-> Null]
    /\ (/\ op = "dataframe_for_dir"
        /\ args.directory.exists
        /\ FirstFailure(args.directory.files, args.f1, args.f2) # "none")
          => result = [exc |-> FirstFailure(args.directory.files, args.f1, args.f2),
                       val |-> Null]

C6_Witness ==
    /\ op = "dataframe_for_dir"
    /\ args.directory.files
          = <<JsonFile(<<cFit>>), BadFile("bad_json"), JsonFile(<<cNoGen>>)>>
    /\ args.f1 = "generation_of_creature"
    /\ args.f2 = "fitness_of_creature"
    /\ result = [exc |-> "KeyError", val |-> Null]
    /\ Len(stdout) = 2

\* C7: for a population root of island_<N>/population directories that hold
\* files, population_dirs returns those directories and
\* dataframe_for_population returns the table over all of them.
C7_PopulationTable ==
    LET dirs == PopulationMatches(args.root)
        records == Records(FilesOf(dirs))
        conventional ==
            /\ Len(args.root) >= 1
            /\ \A i \in 1..Len(args.root) :
                  /\ args.root[i].population.exists
                  /\ Len(args.root[i].population.files) >= 1
    IN  /\ (op = "population_dirs" /\ args.island = 0 /\ conventional) =>
              result = [exc |-> "none", val |-> dirs]
        /\ (/\ op = "dataframe_for_population"
            /\ conventional
            /\ AllExtracted(records, args.f1, args.f2)) =>
              /\ result.exc = "none"
              /\ result.val.rows =
                    RowsOf(records, args.c1_name, args.c2_name, args.f1, args.f2)

\* C8: a call of the loader or of the table assembly in which every file
\* loads prints nothing.
C8_SilentWhenAllLoad ==
    /\ (op \in {"load_population", "build_dataframe"} /\ args.file.kind = "json")
          => stdout = <<>>
    /\ (/\ op = "dataframe_for_dir"
        /\ args.directory.exists
        /\ AllLoad(args.directory.files)
        /\ result.exc = "none") => stdout = <<>>
    /\ (/\ op = "dataframe_for_dirs"
        /\ \A i \in 1..Len(args.pop_dirs) :
              args.pop_dirs[i].exists /\ AllLoad(args.pop_dirs[i].files)
        /\ result.exc = "none") => stdout = <<>>

\* The files of the sequence that load.
Remaining(fs) == SelectSeq(fs, LAMBDA f : f.kind = "json")

\* C9: in dataframe_for_dir a file that fails to load adds no row and does not
\* end the assembly: the table is the table of the files that load, under the
\* same column names, wherever the failing file stands.
C9_FailedFileAddsNoRows ==
    LET fs == args.directory.files
        rest == Remaining(fs)
        records == Records(rest)
        alone == dataframe_for_dir(Directory(rest), args.c1_name, args.c2_name,
                                   args.f1, args.f2)
    IN  (/\ op = "dataframe_for_dir"
         /\ args.directory.exists
         /\ \E i \in 1..Len(fs) : fs[i].kind # "json"
         /\ AllExtracted(records, args.f1, args.f2)) =>
            /\ result.exc = "none"
            /\ result.val.cols = ColsOf(args.c1_name, args.c2_name)
            /\ result.val.rows =
                  RowsOf(records, args.c1_name, args.c2_name, args.f1, args.f2)
            /\ Len(result.val.index) = Len(records)
            /\ rest # <<>> => result.val = alone.val

C9_Witness ==
    /\ op = "dataframe_for_dir"
    /\ args.directory.files
          = <<JsonFile(<<cFit>>), BadFile("not_gzip"), JsonFile(<<cNoFit>>)>>
    /\ args.c1_name = "generation"
    /\ args.c2_name = "fitness"
    /\ result.exc = "none"
    /\ Len(result.val.rows) = 2
    /\ \E i \in 1..Len(stdout) : stdout[i].exc = "BadGzipFile"

\* C10: dataframe_for_dir on a directory without files and dataframe_for_dirs
\* on an empty list of directories return a table of zero rows.
C10_EmptyGivesEmptyTable ==
    (\/ op = "dataframe_for_dir" /\ args.directory.exists /\ args.directory.files = <<>>
     \/ op = "dataframe_for_dirs" /\ args.pop_dirs = <<>>) =>
        /\ result.exc = "none"
        /\ result.val.rows = <<>>

====
